---------------------------- MODULE Spec2Model ----------------------------
(***************************************************************************)
(* Model of the horizon-crossing / transit detector of the celestial       *)
(* scripts: find_rise_transit_set of voyager_from_kc-3.py.                 *)
(*                                                                         *)
(* A datetime and a timedelta are records [s, us]: whole seconds and       *)
(* microseconds with 0 <= us < 10^6, the resolution Python keeps them at.  *)
(* Altitudes are integers (degrees).  The float arithmetic of the          *)
(* interpolation is modelled exactly (as a rational) up to the point where *)
(* timedelta(seconds=...) rounds it to a whole number of microseconds.     *)
(* Series are functions on 0..n-1, so indices are the source's indices.    *)
(***************************************************************************)
EXTENDS Integers, FiniteSets, Sequences, TLC

VARIABLES times, altitudes, pc, i, rise_time, transit_time, set_time,
          alt_diff, exc,
          calls, first,
          azimuth, direction, c_pc,
          m_pc, craft, num_steps, eph, vel, out, status,
          p_pc, args, planet_name, sky, rise_cst, set_cst, transit_cst,
          p_out, exit_status

\* the detector's frame: its arguments, locals and outcome
detectorVars == <<times, altitudes, pc, i, rise_time, transit_time, set_time,
                  alt_diff, exc>>

\* the repeated-call harness: number of the current call on the series and
\* what the first call returned
callVars == <<calls, first>>

\* get_compass_direction: its argument (hundredths of a degree), what it
\* returned and where its call stands
compassVars == <<azimuth, direction, c_pc>>

\* main of voyager_from_kc-3.py: its position, the spacecraft the loop is
\* at, the number of steps of the window, the ephemeris table and the
\* velocity of the current spacecraft, the lines printed so far and, for
\* each spacecraft, what has happened to it
mainVars == <<m_pc, craft, num_steps, eph, vel, out, status>>

\* planets.py: where the program stands, the parsed command line, the
\* body name show_planet_info works with, the body's altitude (degrees)
\* and azimuth (hundredths of a degree), the three times to display, the
\* lines printed so far and the exit status of the process
planetVars == <<p_pc, args, planet_name, sky, rise_cst, set_cst, transit_cst,
                p_out, exit_status>>

\* everything but the detector's frame and the repeated-call harness
envVars == <<compassVars, mainVars, planetVars>>

\* everything outside the detector's frame
otherVars == <<callVars, envVars>>

vars == <<detectorVars, otherVars>>

---------------------------------------------------------------------------
(* Bounds of the model *)

\* longest series drawn from Alts
MaxLen == 5

\* number of times the detector is called on one series
MaxCalls == 2

\* whole turns of azimuth covered below 0 and from 360 degrees up
AzTurns == 1

\* largest number of steps of main's observation window
MaxSteps == 3

\* the altitudes (degrees) the bounded series are drawn from
Alts == {-10, -2, 0, 5, 10}

---------------------------------------------------------------------------
(* Values *)

\* Python's None
None == [none |-> TRUE]

\* microseconds in a second (datetime/timedelta resolution)
MICRO == 1000000

DT(s, us) == [s |-> s, us |-> us]

\* normalisation done by datetime/timedelta arithmetic: 0 <= us < 10^6
Normalize(s, us) == DT(s + (us \div MICRO), us % MICRO)

\* datetime - datetime -> timedelta
TimeSub(t1, t0) == Normalize(t1.s - t0.s, t1.us - t0.us)

\* datetime + timedelta -> datetime
TimeAdd(t, d) == Normalize(t.s + d.s, t.us + d.us)

\* len() of a series
len(f) == Cardinality(DOMAIN f)

\* builtin max(altitudes) of a non-empty series
Max(a) == CHOOSE m \in {a[k] : k \in DOMAIN a} : \A k \in DOMAIN a : a[k] <= m

\* variant: index of the last occurrence of the maximum
ArgMaxLast(a) == CHOOSE k \in DOMAIN a :
                     /\ a[k] = Max(a)
                     /\ \A j \in DOMAIN a : a[j] = a[k] => j <= k

\* np.argmax(altitudes): index of the first occurrence of the maximum
ArgMax(a) == CHOOSE k \in DOMAIN a :
                 /\ a[k] = Max(a)
                 /\ \A j \in DOMAIN a : a[j] = a[k] => k <= j

\* round-half-even of the rational num/den (den > 0), as timedelta rounds
\* a fractional number of microseconds
RoundHalfEven(num, den) ==
    LET q == num \div den
        r == num % den
    IN  IF 2 * r > den \/ (2 * r = den /\ q % 2 = 1) THEN q + 1 ELSE q

\* variant: the fractional microsecond is truncated instead of rounded
TimedeltaSecondsTruncated(t_diff, nn, dd) ==
    LET n == IF dd < 0 THEN 0 - nn ELSE nn
        d == IF dd < 0 THEN 0 - dd ELSE dd
        whole == (t_diff.s * n) \div d
        r == (t_diff.s * n) % d
        micro == (r * MICRO + t_diff.us * n) \div d
    IN  Normalize(whole, micro)

\* timedelta(seconds = t_diff * nn / dd) for a timedelta t_diff and
\* integers nn, dd with dd # 0: the product is taken exactly and rounded
\* to the nearest microsecond
TimedeltaSeconds(t_diff, nn, dd) ==
    LET n == IF dd < 0 THEN 0 - nn ELSE nn
        d == IF dd < 0 THEN 0 - dd ELSE dd
        whole == (t_diff.s * n) \div d
        r == (t_diff.s * n) % d
        micro == RoundHalfEven(r * MICRO + t_diff.us * n, d)
    IN  Normalize(whole, micro)

\* variant: a sample at exactly 0 counts as above the horizon
IsRisingZeroAbove(a, k) == a[k-1] < 0 /\ a[k] >= 0

\* variant: both comparisons non-strict
IsRisingOrFlat(a, k) == a[k-1] <= 0 /\ a[k] >= 0

\* variant: a sample at exactly 0 does not start a pass
IsRisingStrict(a, k) == a[k-1] < 0 /\ a[k] > 0

\* rise branch condition (line 59)
IsRising(a, k) == a[k-1] <= 0 /\ a[k] > 0

\* variant: the set scan reuses the rise condition
IsSettingCopyPaste(a, k) == a[k-1] <= 0 /\ a[k] > 0

\* variant: a sample at exactly 0 does not end a pass
IsSettingStrict(a, k) == a[k-1] > 0 /\ a[k] < 0

\* set branch condition (line 74)
IsSetting(a, k) == a[k-1] > 0 /\ a[k] <= 0

\* variant: the sign of the earlier altitude is not flipped
InterpolateSignSlip(t, a, k) ==
    TimeAdd(t[k-1], TimedeltaSeconds(TimeSub(t[k], t[k-1]), a[k-1], a[k] - a[k-1]))

\* variant: interpolation weight taken from the later sample
InterpolateFromLater(t, a, k) ==
    TimeAdd(t[k-1], TimedeltaSeconds(TimeSub(t[k], t[k-1]), a[k], a[k] - a[k-1]))

\* lines 61-64 / 76-79: the interpolated crossing time between k-1 and k
Interpolate(t, a, k) ==
    TimeAdd(t[k-1], TimedeltaSeconds(TimeSub(t[k], t[k-1]), 0 - a[k-1], a[k] - a[k-1]))

---------------------------------------------------------------------------
(* Input series *)

Hour == DT(3600, 0)
Quarter == DT(900, 0)

\* window starts
Starts == {DT(0, 0), DT(86399, 999999)}

\* sampling steps, repeated cyclically along a series
StepCycles == {<<Hour>>, <<Quarter>>, <<DT(0, 1), DT(0, 1), DT(1, 999998)>>}

\* the first m steps of the cycle c together, m <= Len(c)
RECURSIVE StepSum(_, _)
StepSum(c, m) ==
    IF m = 0 THEN DT(0, 0) ELSE TimeAdd(StepSum(c, m - 1), c[m])

\* the k-th sample time: the start plus the first k steps, that is the
\* whole cycles among them and the steps of the cycle begun
MkTime(t0, c, k) ==
    LET whole == StepSum(c, Len(c))
        q == k \div Len(c)
    IN  TimeAdd(TimeAdd(t0, Normalize(whole.s * q, whole.us * q)),
                StepSum(c, k % Len(c)))

MkTimes(n, t0, c) == [k \in 0..(n-1) |-> MkTime(t0, c, k)]

\* the single rise-set pair example, 1-hour steps
ExampleAltitudes == [k \in 0..6 |-> <<-10, -2, 5, 20, 30, 10, -5>>[k + 1]]

\* 97 samples over 24 h at 15-minute steps, above the horizon on 40..60
EndToEndAltitudes ==
    [k \in 0..96 |-> IF k \in 40..60
                     THEN (IF k <= 52 THEN k - 39 ELSE 65 - k)
                     ELSE (IF k < 40 THEN k - 40 ELSE 60 - k)]

---------------------------------------------------------------------------
(* find_rise_transit_set *)

\* the harness before any call has returned
NoResult == <<None, None, None>>

InitCalls ==
    /\ calls = 1
    /\ first = NoResult

\* no compass call in progress
CompassIdle ==
    /\ azimuth = 0
    /\ direction = ""
    /\ c_pc = "idle"

\* value of a local that holds a number
Num(x) == [val |-> x]

\* lines 147-150 (a dict keeps its insertion order)
spacecraft == <<"Voyager 1", "Voyager 2">>

NoVelocity == <<None, None, None, None>>

NotStarted == [query |-> "none", detector |-> "not called", outcome |-> "none"]

\* main is not running
MainIdle ==
    /\ m_pc = "idle"
    /\ craft = 1
    /\ num_steps = 0
    /\ eph = None
    /\ vel = NoVelocity
    /\ out = << >>
    /\ status = [c \in 1..Len(spacecraft) |-> NotStarted]

\* planets.py is not running
PlanetsIdle ==
    /\ p_pc = "idle"
    /\ args = None
    /\ planet_name = None
    /\ sky = None
    /\ rise_cst = None
    /\ set_cst = None
    /\ transit_cst = None
    /\ p_out = << >>
    /\ exit_status = None

Init ==
    /\ InitCalls
    /\ PlanetsIdle
    /\ CompassIdle
    /\ MainIdle
    /\ \/ \E n \in 0..MaxLen, t0 \in Starts, c \in StepCycles :
             /\ altitudes \in [0..(n-1) -> Alts]
             /\ times = MkTimes(n, t0, c)
       \/ \E t0 \in Starts :
             /\ altitudes = ExampleAltitudes
             /\ times = MkTimes(7, t0, <<Hour>>)
       \/ \E t0 \in Starts :
             /\ altitudes = EndToEndAltitudes
             /\ times = MkTimes(97, t0, <<Quarter>>)
    /\ pc = "start"
    /\ i = 0
    /\ rise_time = None
    /\ transit_time = None
    /\ set_time = None
    /\ alt_diff = 0
    /\ exc = "none"

\* variant: the maximum is found by sorting the caller's array in place
SortedAsc(a) ==
    [k \in DOMAIN a |->
        CHOOSE v \in {a[j] : j \in DOMAIN a} :
            /\ Cardinality({j \in DOMAIN a : a[j] < v}) <= k
            /\ k < Cardinality({j \in DOMAIN a : a[j] <= v})]

CheckAlwaysBelowSortsInPlace ==
    /\ pc = "start"
    /\ UNCHANGED otherVars
    /\ altitudes' = SortedAsc(altitudes)
    /\ IF len(altitudes) = 0
       THEN /\ pc' = "raised"
            /\ exc' = "ValueError"
       ELSE /\ pc' = IF Max(altitudes) <= 0 THEN "returned" ELSE "rise_loop"
            /\ exc' = exc
    /\ i' = 1
    /\ UNCHANGED <<times, rise_time, transit_time, set_time, alt_diff>>

\* variant: max() with a default, so that an empty series never rises
CheckAlwaysBelowDefaultMax ==
    /\ pc = "start"
    /\ UNCHANGED otherVars
    /\ pc' = IF len(altitudes) = 0 \/ Max(altitudes) <= 0
             THEN "returned" ELSE "rise_loop"
    /\ i' = 1
    /\ UNCHANGED <<times, altitudes, rise_time, transit_time, set_time,
                   alt_diff, exc>>

\* variant: the early return reports the (non-positive) peak as transit
CheckAlwaysBelowReportsPeak ==
    /\ pc = "start"
    /\ UNCHANGED otherVars
    /\ IF len(altitudes) = 0
       THEN /\ pc' = "raised"
            /\ exc' = "ValueError"
            /\ UNCHANGED transit_time
       ELSE /\ pc' = IF Max(altitudes) <= 0 THEN "returned" ELSE "rise_loop"
            /\ transit_time' = IF Max(altitudes) <= 0
                               THEN times[ArgMax(altitudes)] ELSE transit_time
            /\ exc' = exc
    /\ i' = 1
    /\ UNCHANGED <<times, altitudes, rise_time, set_time, alt_diff>>

\* lines 49-55: the three results start as None; max() of an empty series
\* raises ValueError; a series that never rises returns at once
CheckAlwaysBelow ==
    /\ pc = "start"
    /\ UNCHANGED otherVars
    /\ IF len(altitudes) = 0
       THEN /\ pc' = "raised"
            /\ exc' = "ValueError"
       ELSE /\ pc' = IF Max(altitudes) <= 0 THEN "returned" ELSE "rise_loop"
            /\ exc' = exc
    /\ i' = 1
    /\ UNCHANGED <<times, altitudes, rise_time, transit_time, set_time, alt_diff>>

\* lines 58-65: one iteration of the rise scan (or its exhaustion)
RiseIter ==
    /\ pc = "rise_loop"
    /\ UNCHANGED otherVars
    /\ IF i >= len(altitudes)
       THEN /\ pc' = "transit"
            /\ UNCHANGED <<i, rise_time, alt_diff, exc>>
       ELSE IF IsRising(altitudes, i)
       THEN /\ alt_diff' = altitudes[i] - altitudes[i-1]
            /\ IF alt_diff' = 0
               THEN /\ pc' = "raised"
                    /\ exc' = "ZeroDivisionError"
                    /\ UNCHANGED rise_time
               ELSE /\ rise_time' = Interpolate(times, altitudes, i)
                    /\ pc' = "transit"
                    /\ UNCHANGED exc
            /\ UNCHANGED i
       ELSE /\ i' = i + 1
            /\ UNCHANGED <<pc, rise_time, alt_diff, exc>>
    /\ UNCHANGED <<times, altitudes, transit_time, set_time>>

\* variant: the set scan goes on from the index the rise scan stopped at
FindTransitKeepsIndex ==
    /\ pc = "transit"
    /\ UNCHANGED otherVars
    /\ transit_time' = IF Max(altitudes) > 0
                       THEN times[ArgMax(altitudes)]
                       ELSE transit_time
    /\ pc' = "set_loop"
    /\ UNCHANGED <<times, altitudes, i, rise_time, set_time, alt_diff, exc>>

\* variant: the transit is looked for only when a rise was found
FindTransitAfterRise ==
    /\ pc = "transit"
    /\ UNCHANGED otherVars
    /\ transit_time' = IF rise_time # None /\ Max(altitudes) > 0
                       THEN times[ArgMax(altitudes)]
                       ELSE transit_time
    /\ pc' = "set_loop"
    /\ i' = 1
    /\ UNCHANGED <<times, altitudes, rise_time, set_time, alt_diff, exc>>

\* lines 68-70: transit at the sample of maximum altitude
FindTransit ==
    /\ pc = "transit"
    /\ UNCHANGED otherVars
    /\ transit_time' = IF Max(altitudes) > 0
                       THEN times[ArgMax(altitudes)]
                       ELSE transit_time
    /\ pc' = "set_loop"
    /\ i' = 1
    /\ UNCHANGED <<times, altitudes, rise_time, set_time, alt_diff, exc>>

\* lines 73-80: one iteration of the set scan (or its exhaustion)
SetIter ==
    /\ pc = "set_loop"
    /\ UNCHANGED otherVars
    /\ IF i >= len(altitudes)
       THEN /\ pc' = "return"
            /\ UNCHANGED <<i, set_time, alt_diff, exc>>
       ELSE IF IsSetting(altitudes, i)
       THEN /\ alt_diff' = altitudes[i] - altitudes[i-1]
            /\ IF alt_diff' = 0
               THEN /\ pc' = "raised"
                    /\ exc' = "ZeroDivisionError"
                    /\ UNCHANGED set_time
               ELSE /\ set_time' = Interpolate(times, altitudes, i)
                    /\ pc' = "return"
                    /\ UNCHANGED exc
            /\ UNCHANGED i
       ELSE /\ i' = i + 1
            /\ UNCHANGED <<pc, set_time, alt_diff, exc>>
    /\ UNCHANGED <<times, altitudes, rise_time, transit_time>>

\* line 82
Return ==
    /\ pc = "return"
    /\ UNCHANGED otherVars
    /\ pc' = "returned"
    /\ UNCHANGED <<times, altitudes, i, rise_time, transit_time, set_time,
                   alt_diff, exc>>

\* the same series is handed to the detector again: a new frame (line 41)
\* whose results start as None (lines 49-51); the arguments are the
\* caller's objects, which the previous call left as they are
CallAgain ==
    /\ pc = "returned"
    /\ calls < MaxCalls
    /\ calls' = calls + 1
    /\ first' = IF calls = 1 THEN <<rise_time, transit_time, set_time>> ELSE first
    /\ pc' = "start"
    /\ i' = 0
    /\ rise_time' = None
    /\ transit_time' = None
    /\ set_time' = None
    /\ alt_diff' = 0
    /\ UNCHANGED <<times, altitudes, exc>>
    /\ UNCHANGED envVars

Next ==
    \/ CheckAlwaysBelow
    \/ RiseIter
    \/ FindTransit
    \/ SetIter
    \/ Return
    \/ CallAgain

Spec == Init /\ [][Next]_vars

TypeOK ==
    /\ pc \in {"idle", "start", "rise_loop", "transit", "set_loop", "return",
               "returned", "raised"}
    /\ exc \in {"none", "ValueError", "ZeroDivisionError"}
    /\ DOMAIN times = DOMAIN altitudes

---------------------------------------------------------------------------
(* get_compass_direction (moon.py, planets.py, mars.py, moon_24h.py: the   *)
(* four copies are the same text).  Azimuths are in hundredths of a        *)
(* degree, so that the sector width 22.5 and the sector boundaries         *)
(* 22.5*k + 11.25 are whole numbers.                                       *)

\* 22.5 degrees
Sector == 2250

directions == <<"N", "NNE", "NE", "ENE", "E", "ESE", "SE", "SSE",
                "S", "SSW", "SW", "WSW", "W", "WNW", "NW", "NNW">>

\* directions[index] of a 16-element Python list
ListIndex(index) ==
    IF index >= 16 \/ index < -16 THEN "IndexError"
    ELSE IF index < 0 THEN directions[index + 17]
    ELSE directions[index + 1]

\* variant: the quotient is truncated (int()) instead of rounded
get_compass_direction_truncated(az) == ListIndex((az \div Sector) % 16)

\* variant: the index is not wrapped
get_compass_direction_nowrap(az) == ListIndex(RoundHalfEven(az, Sector))

\* variant: a quotient half-way between two integers is rounded up
get_compass_direction_halfup(az) == ListIndex(((2 * az + Sector) \div (2 * Sector)) % 16)

\* round() of a float is round-half-even; % 16 of an int is in 0..15
get_compass_direction(az) == ListIndex(RoundHalfEven(az, Sector) % 16)

\* no detector call in progress
DetectorIdle ==
    /\ times = << >>
    /\ altitudes = << >>
    /\ pc = "idle"
    /\ i = 0
    /\ rise_time = None
    /\ transit_time = None
    /\ set_time = None
    /\ alt_diff = 0
    /\ exc = "none"

InitCompass ==
    /\ DetectorIdle
    /\ PlanetsIdle
    /\ InitCalls
    /\ MainIdle
    /\ azimuth \in (0 - AzTurns * 36000)..((AzTurns + 1) * 36000 - 1)
    /\ direction = ""
    /\ c_pc = "start"

CompassCall ==
    /\ c_pc = "start"
    /\ direction' = get_compass_direction(azimuth)
    /\ c_pc' = "done"
    /\ UNCHANGED <<azimuth, detectorVars, callVars, mainVars, planetVars>>

NextCompass == CompassCall

SpecCompass == InitCompass /\ [][NextCompass]_vars

---------------------------------------------------------------------------
(* main of voyager_from_kc-3.py.  The JPL Horizons service is outside the  *)
(* program: a query either raises or returns the whole table of the        *)
(* requested window, one row per step and both ends included.              *)

\* a printed line: the spacecraft it is about (0 for none), what it is and
\* the text that varies
Line(c, kind, text) == [craft |-> c, kind |-> kind, text |-> text]

\* velocity vectors the service may return, km/s
Velocities == {<<3, 4, 12>>}

\* the elevations (degrees) the service's tables are drawn from
MainAlts == {-2, 5}

\* eph = obj.ephemerides() for a window of n samples (line 166)
Ephemerides(n) ==
    {[datetime_jd |-> MkTimes(n, t0, <<Quarter>>), EL |-> a] :
        t0 \in {DT(0, 0)}, a \in [0..(n-1) -> MainAlts]}

\* truth value of a result: None is false, a datetime is true
Truthy(x) == x # None

\* lines 226-245: the event lines of the report
EventLines(c, r, t, s) ==
    IF r = None /\ t = None /\ s = None
    THEN <<Line(c, "Below", "remains below the horizon during the entire period.")>>
    ELSE <<Line(c, "Rise", IF Truthy(r) THEN "time" ELSE "Not observed in this time period"),
           Line(c, "Transit", IF Truthy(t) THEN "time" ELSE "Not observed in this time period"),
           Line(c, "Set", IF Truthy(s) THEN "time" ELSE "Not observed in this time period")>>

\* lines 214-221: the heliocentric velocity lines
VelocityLines(c, v) ==
    IF v[4] # None
    THEN <<Line(c, "Velocity", "components")>>
    ELSE <<Line(c, "Velocity", "Could not retrieve heliocentric velocity data")>>

\* line 248
ErrorLine(c) == Line(c, "Error", "Error retrieving data")

\* lines 124-155: the window is set up and the banner printed
InitMain ==
    /\ DetectorIdle
    /\ PlanetsIdle
    /\ InitCalls
    /\ CompassIdle
    /\ m_pc = "loop"
    /\ craft = 1
    /\ num_steps \in 1..MaxSteps
    /\ eph = None
    /\ vel = NoVelocity
    /\ out = << >>
    /\ status = [c \in 1..Len(spacecraft) |-> NotStarted]

\* variant: a failed query ends the loop
MainQueryStopsOnError ==
    /\ m_pc = "loop"
    /\ craft <= Len(spacecraft)
    /\ \/ \E e \in Ephemerides(num_steps + 1) :
             /\ eph' = e
             /\ out' = out \o <<Line(craft, "Header", spacecraft[craft])>>
             /\ status' = [status EXCEPT ![craft].query = "ok"]
             /\ m_pc' = "velocity"
             /\ UNCHANGED craft
       \/ /\ out' = out \o <<Line(craft, "Header", spacecraft[craft]), ErrorLine(craft)>>
          /\ status' = [status EXCEPT ![craft].query = "failed", ![craft].outcome = "error"]
          /\ craft' = Len(spacecraft) + 1
          /\ m_pc' = "loop"
          /\ UNCHANGED eph
    /\ UNCHANGED <<num_steps, vel, detectorVars, callVars, compassVars, planetVars>>

\* lines 158-166 and 247-248: the header of the next spacecraft and its
\* ephemeris query, which returns the table or raises
MainQuery ==
    /\ m_pc = "loop"
    /\ craft <= Len(spacecraft)
    /\ \/ \E e \in Ephemerides(num_steps + 1) :
             /\ eph' = e
             /\ out' = out \o <<Line(craft, "Header", spacecraft[craft])>>
             /\ status' = [status EXCEPT ![craft].query = "ok"]
             /\ m_pc' = "velocity"
             /\ UNCHANGED craft
       \/ /\ out' = out \o <<Line(craft, "Header", spacecraft[craft]), ErrorLine(craft)>>
          /\ status' = [status EXCEPT ![craft].query = "failed", ![craft].outcome = "error"]
          /\ craft' = craft + 1
          /\ m_pc' = "loop"
          /\ UNCHANGED eph
    /\ UNCHANGED <<num_steps, vel, detectorVars, callVars, compassVars, planetVars>>

\* variant: a failed vector query is not caught in
\* get_heliocentric_velocity and reaches the except clause of main
MainVelocityRaises ==
    /\ m_pc = "velocity"
    /\ \/ /\ \E v \in Velocities :
                vel' = <<Num(v[1]), Num(v[2]), Num(v[3]),
                         [sqrt_of |-> v[1] * v[1] + v[2] * v[2] + v[3] * v[3]]>>
          /\ m_pc' = "extract"
          /\ UNCHANGED <<craft, out, status>>
       \/ /\ vel' = vel
          /\ out' = out \o <<ErrorLine(craft)>>
          /\ status' = [status EXCEPT ![craft].outcome = "error"]
          /\ craft' = craft + 1
          /\ m_pc' = "loop"
    /\ UNCHANGED <<num_steps, eph, detectorVars, callVars, compassVars, planetVars>>

\* line 169 and lines 95-122: get_heliocentric_velocity returns the three
\* components and their magnitude, or prints a warning and returns Nones
MainVelocity ==
    /\ m_pc = "velocity"
    /\ \/ \E v \in Velocities :
             /\ vel' = <<Num(v[1]), Num(v[2]), Num(v[3]),
                         [sqrt_of |-> v[1] * v[1] + v[2] * v[2] + v[3] * v[3]]>>
             /\ UNCHANGED out
       \/ /\ vel' = NoVelocity
          /\ out' = out \o <<Line(craft, "Warning", "Could not retrieve heliocentric velocity")>>
    /\ m_pc' = "extract"
    /\ UNCHANGED <<craft, num_steps, eph, status, detectorVars, callVars, compassVars, planetVars>>

\* variant: the detector gets the series without its last sample
MainExtractDropsLast ==
    /\ m_pc = "extract"
    /\ altitudes' = [k \in 0..(len(eph.EL) - 2) |-> eph.EL[k]]
    /\ times' = [k \in 0..(len(eph.EL) - 2) |-> eph.datetime_jd[k]]
    /\ \/ /\ pc' = "start"
          /\ i' = 0
          /\ rise_time' = None
          /\ transit_time' = None
          /\ set_time' = None
          /\ alt_diff' = 0
          /\ status' = [status EXCEPT ![craft].detector = "called"]
          /\ m_pc' = "detect"
          /\ UNCHANGED <<craft, out>>
       \/ /\ out' = out \o <<ErrorLine(craft)>>
          /\ status' = [status EXCEPT ![craft].outcome = "error"]
          /\ craft' = craft + 1
          /\ m_pc' = "loop"
          /\ UNCHANGED <<pc, i, rise_time, transit_time, set_time, alt_diff>>
    /\ UNCHANGED <<num_steps, eph, vel, exc, callVars, compassVars, planetVars>>

\* lines 172-200 and 247-248: the altitudes and the times (one datetime
\* per Julian date of the table) are taken from the table; then either
\* the remaining conversions go through and find_rise_transit_set is
\* called on the two series, or one of them raises and the error is
\* printed
MainExtract ==
    /\ m_pc = "extract"
    /\ altitudes' = eph.EL
    /\ times' = [k \in DOMAIN eph.datetime_jd |-> eph.datetime_jd[k]]
    /\ \/ /\ pc' = "start"
          /\ i' = 0
          /\ rise_time' = None
          /\ transit_time' = None
          /\ set_time' = None
          /\ alt_diff' = 0
          /\ status' = [status EXCEPT ![craft].detector = "called"]
          /\ m_pc' = "detect"
          /\ UNCHANGED <<craft, out>>
       \/ /\ out' = out \o <<ErrorLine(craft)>>
          /\ status' = [status EXCEPT ![craft].outcome = "error"]
          /\ craft' = craft + 1
          /\ m_pc' = "loop"
          /\ UNCHANGED <<pc, i, rise_time, transit_time, set_time, alt_diff>>
    /\ UNCHANGED <<num_steps, eph, vel, exc, callVars, compassVars, planetVars>>

\* variant: the below-horizon message is chosen on the rise alone
MainReportOnRiseOnly ==
    /\ m_pc = "detect"
    /\ pc \in {"returned", "raised"}
    /\ IF pc = "raised"
       THEN /\ out' = out \o <<ErrorLine(craft)>>
            /\ status' = [status EXCEPT ![craft].outcome = "error"]
       ELSE /\ out' = out \o <<Line(craft, "Position", "current position")>>
                         \o VelocityLines(craft, vel)
                         \o EventLines(craft, rise_time, rise_time, rise_time)
            /\ status' = [status EXCEPT ![craft].outcome = "reported"]
    /\ craft' = craft + 1
    /\ m_pc' = "loop"
    /\ UNCHANGED <<num_steps, eph, vel, detectorVars, callVars, compassVars, planetVars>>

\* lines 200-248: when the detector has returned, the position, the
\* velocity and the events are printed; had it raised, the error is
\* printed instead
MainReport ==
    /\ m_pc = "detect"
    /\ pc \in {"returned", "raised"}
    /\ IF pc = "raised"
       THEN /\ out' = out \o <<ErrorLine(craft)>>
            /\ status' = [status EXCEPT ![craft].outcome = "error"]
       ELSE /\ out' = out \o <<Line(craft, "Position", "current position")>>
                         \o VelocityLines(craft, vel)
                         \o EventLines(craft, rise_time, transit_time, set_time)
            /\ status' = [status EXCEPT ![craft].outcome = "reported"]
    /\ craft' = craft + 1
    /\ m_pc' = "loop"
    /\ UNCHANGED <<num_steps, eph, vel, detectorVars, callVars, compassVars, planetVars>>

\* lines 250-251: the closing note, after the loop
MainFinish ==
    /\ m_pc = "loop"
    /\ craft > Len(spacecraft)
    /\ out' = out \o <<Line(0, "Note", "theoretical visibility only")>>
    /\ m_pc' = "done"
    /\ UNCHANGED <<craft, num_steps, eph, vel, status, detectorVars, callVars, compassVars, planetVars>>

NextMain ==
    \/ MainQuery
    \/ MainVelocity
    \/ MainExtract
    \/ CheckAlwaysBelow
    \/ RiseIter
    \/ FindTransit
    \/ SetIter
    \/ Return
    \/ MainReport
    \/ MainFinish

SpecMain == InitMain /\ [][NextMain]_vars

\* main is one sequential thread: it takes its next step whenever it has
\* one (a query returns or raises)
SpecMainFair == SpecMain /\ WF_vars(NextMain)

---------------------------------------------------------------------------
(* find_rise_transit_set of archive/voyager_from_kc-2.py, as a function of *)
(* the series: its outcome is the exception raised, or "none" and the      *)
(* returned triple                                                         *)

Raised(e) == [exc |-> e, result |-> NoResult]

Returns(r, t, s) == [exc |-> "none", result |-> <<r, t, s>>]

\* kc-2 line 63
IsRising_kc2(a, k) == a[k-1] <= 0 /\ a[k] > 0

\* kc-2 line 78
IsSetting_kc2(a, k) == a[k-1] > 0 /\ a[k] <= 0

\* kc-2 lines 65-68 and 80-83
Interpolate_kc2(t, a, k) ==
    TimeAdd(t[k-1], TimedeltaSeconds(TimeSub(t[k], t[k-1]), 0 - a[k-1], a[k] - a[k-1]))

\* kc-2 lines 62-69: the rise scan from index k on; the index of the first
\* rising pair, or len(a) when the loop runs out
RECURSIVE RiseScan_kc2(_, _)
RiseScan_kc2(a, k) ==
    IF k >= len(a) THEN len(a)
    ELSE IF IsRising_kc2(a, k) THEN k
    ELSE RiseScan_kc2(a, k + 1)

\* kc-2 lines 77-84: the set scan from index k on
RECURSIVE SetScan_kc2(_, _)
SetScan_kc2(a, k) ==
    IF k >= len(a) THEN len(a)
    ELSE IF IsSetting_kc2(a, k) THEN k
    ELSE SetScan_kc2(a, k + 1)

\* kc-2 lines 45-86
find_rise_transit_set_kc2(t, a) ==
    IF len(a) = 0 THEN Raised("ValueError")
    ELSE IF Max(a) <= 0 THEN Returns(None, None, None)
    ELSE LET r == RiseScan_kc2(a, 1)
             s == SetScan_kc2(a, 1)
         IN  IF r < len(a) /\ a[r] - a[r-1] = 0 THEN Raised("ZeroDivisionError")
             ELSE IF s < len(a) /\ a[s] - a[s-1] = 0 THEN Raised("ZeroDivisionError")
             ELSE Returns(IF r < len(a) THEN Interpolate_kc2(t, a, r) ELSE None,
                          IF Max(a) > 0 THEN t[ArgMax(a)] ELSE None,
                          IF s < len(a) THEN Interpolate_kc2(t, a, s) ELSE None)

---------------------------------------------------------------------------
(* Vocabulary of the properties, stated on the input series alone *)

Returned == pc = "returned"

LastIndex == len(altitudes) - 1

\* some sample is above the horizon
Positive == \E k \in DOMAIN altitudes : altitudes[k] > 0

\* pairs (k-1, k) going from at-or-below the horizon to above it
RisingPairs == {k \in 1..LastIndex : altitudes[k-1] <= 0 /\ altitudes[k] > 0}

\* pairs (k-1, k) going from above the horizon to at-or-below it
SettingPairs == {k \in 1..LastIndex : altitudes[k-1] > 0 /\ altitudes[k] <= 0}

Lowest(S) == CHOOSE k \in S : \A j \in S : k <= j

\* t1 <= t2 on datetimes
Leq(t1, t2) == t1.s < t2.s \/ (t1.s = t2.s /\ t1.us <= t2.us)

\* t is, at the microsecond resolution of a datetime, the instant
\*   times[k-1] + (times[k] - times[k-1]) * (0 - altitudes[k-1])
\*                                        / (altitudes[k] - altitudes[k-1]) :
\* with D = t - times[k-1] and d = |altitudes[k] - altitudes[k-1]|, the
\* error D*d - t_diff*n is at most d/2 microseconds in absolute value
AtCrossing(t, k) ==
    LET dd == altitudes[k] - altitudes[k-1]
        n == IF dd < 0 THEN altitudes[k-1] ELSE 0 - altitudes[k-1]
        d == IF dd < 0 THEN 0 - dd ELSE dd
        Es == (t.s - times[k-1].s) * d - (times[k].s - times[k-1].s) * n
        Eus == (t.us - times[k-1].us) * d - (times[k].us - times[k-1].us) * n
        q == Es + (Eus \div MICRO)
        r == Eus % MICRO
    IN  /\ t # None
        /\ d # 0
        /\ \/ q = 0 /\ 2 * r <= d
           \/ q = -1 /\ 2 * (MICRO - r) <= d

---------------------------------------------------------------------------
(* Properties of find_rise_transit_set *)

\* C1: for every non-empty series in which every altitude is <= 0
\* (exactly 0 included) the call returns (None, None, None): no rise, no
\* transit (the non-positive peak is not reported) and no set.
Thm_C1_AlwaysBelow ==
    (pc # "start" /\ len(altitudes) >= 1 /\ ~Positive) =>
        /\ pc = "returned"
        /\ rise_time = None /\ transit_time = None /\ set_time = None

Wit_C1_AlwaysBelow ==
    /\ Returned
    /\ len(altitudes) >= 2
    /\ ~Positive
    /\ \E k \in DOMAIN altitudes : altitudes[k] = 0
    /\ \E k \in DOMAIN altitudes : altitudes[k] < 0
    /\ rise_time = None /\ transit_time = None /\ set_time = None

\* C2: when the series has a positive sample, the reported rise is None if
\* no pair goes from <= 0 to > 0, and otherwise is the interpolated
\* crossing (at datetime resolution) of the lowest-index such pair; later
\* rising crossings have no effect.
Thm_C2_FirstRise ==
    (Returned /\ Positive) =>
        IF RisingPairs = {}
        THEN rise_time = None
        ELSE AtCrossing(rise_time, Lowest(RisingPairs))

Wit_C2_FirstRise ==
    /\ Returned
    /\ Cardinality(RisingPairs) >= 2
    /\ altitudes[Lowest(RisingPairs) - 1] = -2
    /\ altitudes[Lowest(RisingPairs)] = 5
    /\ rise_time # None
    /\ rise_time # times[Lowest(RisingPairs) - 1]

\* C3: when the series has a positive sample, the reported set is None if
\* no pair goes from > 0 to <= 0, and otherwise is the interpolated crossing
\* (same formula as rise, at datetime resolution) of the lowest-index such
\* pair; later setting crossings are ignored.
Thm_C3_FirstSet ==
    (Returned /\ Positive) =>
        IF SettingPairs = {}
        THEN set_time = None
        ELSE AtCrossing(set_time, Lowest(SettingPairs))

Wit_C3_FirstSet ==
    /\ Returned
    /\ Cardinality(SettingPairs) >= 2
    /\ altitudes[Lowest(SettingPairs) - 1] = 5
    /\ altitudes[Lowest(SettingPairs)] = -2
    /\ set_time # None
    /\ set_time # times[Lowest(SettingPairs)]

\* C4: when some sample is above the horizon, the reported transit is
\* exactly the timestamp of the lowest-index sample among those of
\* globally maximum altitude (no interpolation).
Thm_C4_Transit ==
    (Returned /\ Positive) =>
        \E m \in DOMAIN altitudes :
            /\ \A j \in DOMAIN altitudes : altitudes[j] <= altitudes[m]
            /\ \A j \in DOMAIN altitudes : j < m => altitudes[j] < altitudes[m]
            /\ transit_time = times[m]

Wit_C4_Transit ==
    /\ Returned
    /\ \E m, j \in DOMAIN altitudes :
          /\ 0 < m /\ m < j
          /\ altitudes[m] = altitudes[j]
          /\ altitudes[m] > 0
          /\ \A h \in DOMAIN altitudes : altitudes[h] <= altitudes[m]
          /\ \A h \in DOMAIN altitudes : h < m => altitudes[h] < altitudes[m]
          /\ transit_time = times[m]

\* C5: a sample at exactly 0 is at-or-below the horizon, never above.  In
\* the rise scan a pair (0, positive) is a rising crossing with rise time
\* exactly times[i-1]; in the set scan a pair (positive, 0) is a setting
\* crossing with set time exactly times[i]; a pair (0, negative),
\* (negative, 0) or (0, 0) is passed over by both scans.
Thm_C5_ZeroIsBelow ==
    [][ (i >= 1 /\ i < len(altitudes)) =>
          LET p == altitudes[i-1]
              c == altitudes[i]
              flat == (p = 0 /\ c < 0) \/ (p < 0 /\ c = 0) \/ (p = 0 /\ c = 0)
          IN  /\ (pc = "rise_loop" /\ p = 0 /\ c > 0) =>
                    (pc' = "transit" /\ rise_time' = times[i-1])
              /\ (pc = "rise_loop" /\ flat) =>
                    (pc' = "rise_loop" /\ i' = i + 1 /\ rise_time' = None)
              /\ (pc = "set_loop" /\ p > 0 /\ c = 0) =>
                    (pc' = "return" /\ set_time' = times[i])
              /\ (pc = "set_loop" /\ flat) =>
                    (pc' = "set_loop" /\ i' = i + 1 /\ set_time' = None)
      ]_vars

Wit_C5_ZeroIsBelow ==
    /\ Returned
    /\ len(altitudes) = 5
    /\ altitudes[0] < 0 /\ altitudes[1] = 0 /\ altitudes[2] > 0
    /\ altitudes[3] = 0 /\ altitudes[4] < 0
    /\ rise_time = times[1]
    /\ set_time = times[3]

\* C6: the interpolation never divides by zero: no call ends in
\* ZeroDivisionError, alt_diff is > 0 whenever the rise branch has
\* interpolated and < 0 whenever the set branch has.
Thm_C6_NoDivisionByZero ==
    /\ exc # "ZeroDivisionError"
    /\ (pc = "transit" /\ rise_time # None) => alt_diff > 0
    /\ (pc = "return" /\ set_time # None) => alt_diff < 0

Wit_C6_NoDivisionByZero ==
    /\ pc = "return"
    /\ rise_time # None
    /\ set_time # None
    /\ alt_diff < 0
    /\ \E k \in 1..LastIndex : altitudes[k-1] = 0 /\ altitudes[k] = 0

\* C7 (as amended): for altitudes [-10, -2, 5, 20, 30, 10, -5] at 1-hour
\* steps from T0 the call returns rise = T0 + 1h + (2/7)h (interpolated
\* between index 1 at T0+1h and index 2; 1h17m08.571429s at datetime
\* resolution), transit = T0 + 4h and set = T0 + 5h40m.
Thm_C7_Example ==
    (Returned /\ altitudes = ExampleAltitudes) =>
        \E t0 \in Starts :
            /\ times = [k \in 0..6 |-> Normalize(t0.s + 3600 * k, t0.us)]
            /\ rise_time = Normalize(t0.s + 3600 + 17 * 60 + 8, t0.us + 571429)
            /\ transit_time = Normalize(t0.s + 4 * 3600, t0.us)
            /\ set_time = Normalize(t0.s + 5 * 3600 + 40 * 60, t0.us)

Wit_C7_Example ==
    /\ Returned
    /\ altitudes = ExampleAltitudes
    /\ times[0] = [s |-> 86399, us |-> 999999]
    /\ rise_time = [s |-> 86399 + 4629, us |-> 571428]
    /\ transit_time = [s |-> 86399 + 14400, us |-> 999999]
    /\ set_time = [s |-> 86399 + 20400, us |-> 999999]

\* C7 as originally stated: rise = T0 + 2h + (2/7)h (to the microsecond,
\* either rounding), transit = T0 + 4h, set = T0 + 5h40m.
Cex_C7_Original ==
    (Returned /\ altitudes = ExampleAltitudes) =>
        \E t0 \in Starts :
            /\ times = [k \in 0..6 |-> Normalize(t0.s + 3600 * k, t0.us)]
            /\ \/ rise_time = Normalize(t0.s + 2 * 3600 + 17 * 60 + 8, t0.us + 571428)
               \/ rise_time = Normalize(t0.s + 2 * 3600 + 17 * 60 + 8, t0.us + 571429)
            /\ transit_time = Normalize(t0.s + 4 * 3600, t0.us)
            /\ set_time = Normalize(t0.s + 5 * 3600 + 40 * 60, t0.us)

\* C8: for every series that is <= 0 everywhere except one contiguous
\* stretch of positive samples a..b with 0 < a <= b < last index, the call
\* returns a rise interpolated between a-1 and a, a transit at the
\* maximum-altitude sample (which lies in a..b) and a set interpolated
\* between b and b+1, with rise <= transit <= set.
Thm_C8_SinglePass ==
    Returned =>
        \A a \in 1..(LastIndex - 1) : \A b \in a..(LastIndex - 1) :
            (\A k \in DOMAIN altitudes : altitudes[k] > 0 <=> (a <= k /\ k <= b)) =>
                /\ AtCrossing(rise_time, a)
                /\ \E m \in a..b :
                      /\ \A j \in DOMAIN altitudes : altitudes[j] <= altitudes[m]
                      /\ transit_time = times[m]
                /\ AtCrossing(set_time, b + 1)
                /\ Leq(rise_time, transit_time)
                /\ Leq(transit_time, set_time)

Wit_C8_SinglePass ==
    /\ Returned
    /\ altitudes = EndToEndAltitudes
    /\ times[0] = [s |-> 0, us |-> 0]
    /\ rise_time = [s |-> 39 * 900 + 450, us |-> 0]
    /\ transit_time = times[52]
    /\ set_time = [s |-> 60 * 900 + 750, us |-> 0]

\* the series is above the horizon at its first sample and, once it has
\* dipped to or below the horizon, never climbs above it again
StartsUpNeverReturns ==
    /\ len(altitudes) >= 1
    /\ altitudes[0] > 0
    /\ \A j, k \in DOMAIN altitudes : (j < k /\ altitudes[j] <= 0) => altitudes[k] <= 0

\* the altitude dips to or below the horizon somewhere
Dips == \E k \in DOMAIN altitudes : altitudes[k] <= 0

\* C9 (as amended): if the first sample is above the horizon and the
\* altitude never climbs back above the horizon after dipping to or below
\* it, then rise is None while transit is populated, and set is populated
\* exactly when the altitude dips; and for every series with a positive
\* sample, a missing rise suppresses neither the transit nor the set.
Thm_C9_NoRise ==
    Returned =>
        /\ StartsUpNeverReturns =>
              /\ rise_time = None
              /\ transit_time # None
              /\ set_time # None <=> Dips
        /\ (Positive /\ rise_time = None) =>
              /\ transit_time # None
              /\ SettingPairs # {} => set_time # None

Wit_C9_NoRise ==
    /\ Returned
    /\ StartsUpNeverReturns
    /\ len(altitudes) >= 4
    /\ altitudes[1] > altitudes[0]
    /\ altitudes[LastIndex] < 0
    /\ rise_time = None
    /\ transit_time = times[1]
    /\ set_time # None

\* C9 as originally stated: first sample positive and no negative altitude
\* before the maximum-altitude sample imply rise = None, transit populated
\* and, if the altitude later dips to or below the horizon, set populated.
Cex_C9_Original ==
    (/\ Returned
     /\ len(altitudes) >= 2
     /\ altitudes[0] > 0
     /\ \A m \in DOMAIN altitudes :
           (\A j \in DOMAIN altitudes : altitudes[j] <= altitudes[m]) =>
               \A k \in 0..(m - 1) : altitudes[k] >= 0)
    => /\ rise_time = None
       /\ transit_time # None
       /\ Dips => set_time # None

\* C10: each result is None exactly when its own condition fails,
\* independently of the other two: rise iff no pair goes from <= 0 to > 0,
\* set iff no pair goes from > 0 to <= 0, transit iff no sample is positive.
Thm_C10_Independent ==
    Returned =>
        /\ rise_time = None <=> RisingPairs = {}
        /\ set_time = None <=> SettingPairs = {}
        /\ transit_time = None <=> ~Positive

\* transit present with set but without rise
Wit_C10_Independent ==
    /\ Returned
    /\ transit_time # None /\ rise_time = None /\ set_time # None
    /\ RisingPairs = {} /\ SettingPairs # {}

\* the other combinations of rise and set with a present transit
C10_RiseOnly ==
    Returned /\ transit_time # None /\ rise_time # None /\ set_time = None

C10_RiseAndSet ==
    Returned /\ transit_time # None /\ rise_time # None /\ set_time # None

C10_Neither ==
    Returned /\ transit_time # None /\ rise_time = None /\ set_time = None

\* t1 < t2 on datetimes
Lt(t1, t2) == t1.s < t2.s \/ (t1.s = t2.s /\ t1.us < t2.us)

\* C11: the set scan starts at the beginning of the series whatever the
\* index of the rise: when the series begins above the horizon, dips to or
\* below it and later rises again, both events are reported, the set is
\* the crossing of the first setting pair, which precedes the first rising
\* pair, and the set time is not later than the rise time.
Thm_C11_SetNotAfterRise ==
    (Returned /\ len(altitudes) >= 1 /\ altitudes[0] > 0 /\ RisingPairs # {}) =>
        /\ rise_time # None
        /\ SettingPairs # {}
        /\ Lowest(SettingPairs) < Lowest(RisingPairs)
        /\ AtCrossing(set_time, Lowest(SettingPairs))
        /\ Leq(set_time, rise_time)

Wit_C11_SetNotAfterRise ==
    /\ Returned
    /\ altitudes[0] > 0
    /\ RisingPairs # {}
    /\ Cardinality(SettingPairs) >= 2
    /\ rise_time # None /\ set_time # None
    /\ Lt(set_time, rise_time)

\* C13 (as amended): the minimum length is not guarded, but only the empty
\* series fails, with the ValueError of max(); a single-sample series
\* returns (None, None, None) when its altitude is <= 0 and
\* (None, times[0], None) when it is positive.
Thm_C13_ShortSeries ==
    /\ (len(altitudes) = 0 /\ pc # "start") =>
          (pc = "raised" /\ exc = "ValueError")
    /\ len(altitudes) = 1 =>
          /\ exc = "none"
          /\ pc \in {"start", "rise_loop", "transit", "set_loop", "return", "returned"}
          /\ Returned =>
                /\ rise_time = None
                /\ set_time = None
                /\ transit_time = IF altitudes[0] > 0 THEN times[0] ELSE None

Wit_C13_ShortSeries ==
    /\ Returned
    /\ len(altitudes) = 1
    /\ altitudes[0] > 0
    /\ rise_time = None /\ set_time = None
    /\ transit_time = times[0]

\* a second state of short series: the empty one has failed
C13_EmptyRaised ==
    len(altitudes) = 0 /\ pc = "raised" /\ exc = "ValueError"

\* C13 as originally stated: every series of fewer than two samples fails
\* with an error instead of returning a result.
Cex_C13_Original ==
    len(altitudes) < 2 => pc # "returned"

\* C20 (as amended): for strictly increasing timestamps a reported rise
\* found at pair (k-1, k) satisfies times[k-1] <= rise <= times[k], a
\* reported set found at pair (k-1, k) satisfies
\* times[k-1] <= set <= times[k], and every reported time lies within
\* [times[0], times[last]].
Thm_C20_Bracketed ==
    Returned =>
        /\ rise_time # None =>
              /\ RisingPairs # {}
              /\ Leq(times[Lowest(RisingPairs) - 1], rise_time)
              /\ Leq(rise_time, times[Lowest(RisingPairs)])
        /\ set_time # None =>
              /\ SettingPairs # {}
              /\ Leq(times[Lowest(SettingPairs) - 1], set_time)
              /\ Leq(set_time, times[Lowest(SettingPairs)])
        /\ \A t \in {rise_time, transit_time, set_time} \ {None} :
              Leq(times[0], t) /\ Leq(t, times[LastIndex])

\* a rise rounded up onto the later sample and a set rounded down onto
\* the earlier one (samples one microsecond apart)
Wit_C20_Bracketed ==
    /\ Returned
    /\ rise_time # None /\ set_time # None
    /\ rise_time = times[Lowest(RisingPairs)]
    /\ altitudes[Lowest(RisingPairs) - 1] < 0
    /\ set_time = times[Lowest(SettingPairs) - 1]

\* C20 as originally stated: times[k-1] <= rise < times[k] and
\* times[k-1] < set <= times[k].
Cex_C20_Original ==
    Returned =>
        /\ rise_time # None =>
              /\ RisingPairs # {}
              /\ Leq(times[Lowest(RisingPairs) - 1], rise_time)
              /\ Lt(rise_time, times[Lowest(RisingPairs)])
        /\ set_time # None =>
              /\ SettingPairs # {}
              /\ Lt(times[Lowest(SettingPairs) - 1], set_time)
              /\ Leq(set_time, times[Lowest(SettingPairs)])
        /\ \A t \in {rise_time, transit_time, set_time} \ {None} :
              Leq(times[0], t) /\ Leq(t, times[LastIndex])

\* C12: find_rise_transit_set is a pure function: a second call on the
\* same series returns the triple the first call returned, and no step of
\* a call changes either input sequence.
Thm_C12_Pure ==
    /\ []((Returned /\ calls >= 2) => <<rise_time, transit_time, set_time>> = first)
    /\ [][times' = times /\ altitudes' = altitudes]_vars

Wit_C12_Pure ==
    /\ Returned
    /\ calls = 2
    /\ first = <<rise_time, transit_time, set_time>>
    /\ rise_time # None /\ set_time # None
    /\ rise_time # times[Lowest(RisingPairs) - 1]

\* C19: the two copies of the detector have not drifted: on every series
\* the call of voyager_from_kc-3.py ends as the one of
\* archive/voyager_from_kc-2.py does, with the same (rise, transit, set)
\* triple or the same exception.
Thm_C19_SameAsKc2 ==
    /\ Returned =>
          find_rise_transit_set_kc2(times, altitudes) =
              Returns(rise_time, transit_time, set_time)
    /\ pc = "raised" =>
          find_rise_transit_set_kc2(times, altitudes).exc = exc

Wit_C19_SameAsKc2 ==
    /\ Returned
    /\ rise_time # None /\ set_time # None
    /\ Lt(set_time, rise_time)
    /\ rise_time # times[Lowest(RisingPairs) - 1]
    /\ find_rise_transit_set_kc2(times, altitudes).result =
           <<rise_time, transit_time, set_time>>

---------------------------------------------------------------------------
(* Properties of get_compass_direction *)

CompassPoints == <<"N", "NNE", "NE", "ENE", "E", "ESE", "SE", "SSE",
                   "S", "SSW", "SW", "WSW", "W", "WNW", "NW", "NNW">>

\* |x|
Abs(x) == IF x < 0 THEN 0 - x ELSE x

\* circular distance, in hundredths of a degree, between two azimuths
CircDist(x, y) ==
    LET d == Abs(x - y) % 36000
    IN  IF d <= 18000 THEN d ELSE 36000 - d

\* C14: get_compass_direction(azimuth) is the compass point number
\* round(azimuth / 22.5) mod 16 of N, NNE, ..., NNW (round giving an
\* integer nearest to the quotient); 0 maps to N, 22.5 to NNE, 180 to S
\* and 359 wraps to N.
Thm_C14_CompassFormula ==
    c_pc = "done" =>
        /\ \E n \in (0 - 16 * (AzTurns + 1))..(16 * (AzTurns + 2)) :
              /\ 2 * Abs(azimuth - n * 2250) <= 2250
              /\ direction = CompassPoints[(n % 16) + 1]
        /\ azimuth = 0 => direction = "N"
        /\ azimuth = 2250 => direction = "NNE"
        /\ azimuth = 18000 => direction = "S"
        /\ azimuth = 35900 => direction = "N"

Wit_C14_CompassFormula ==
    c_pc = "done" /\ azimuth = 35900 /\ direction = "N"

\* C15: the 16 compass points split [0, 360) into sectors 22.5 degrees
\* wide centred on the points: an azimuth in [0, 360) at circular distance
\* strictly less than 11.25 degrees from 22.5*k gets the k-th point (N at
\* both ends of the range).
Thm_C15_Sectors ==
    (c_pc = "done" /\ 0 <= azimuth /\ azimuth < 36000) =>
        \A k \in 0..15 :
            CircDist(azimuth, 2250 * k) < 1125 => direction = CompassPoints[k + 1]

Wit_C15_Sectors ==
    /\ c_pc = "done"
    /\ azimuth = 34876
    /\ CircDist(azimuth, 0) < 1125
    /\ direction = "N"

C24_PastFullTurn ==
    /\ c_pc = "done"
    /\ azimuth = 36000 + 34875
    /\ direction = "N"

\* C25: at an exact sector boundary 22.5*k + 11.25 the rounding is
\* half-to-even: the boundary goes to the neighbouring point with the even
\* index (11.25 -> N, 33.75 -> NE, 56.25 -> NE, 348.75 -> N), so that in
\* [0, 360) the even-indexed sectors are closed at both ends and the
\* odd-indexed ones open at both ends.
Thm_C25_HalfToEven ==
    c_pc = "done" =>
        /\ \A k \in (0 - 16 * (AzTurns + 1))..(16 * (AzTurns + 2)) :
              azimuth = 2250 * k + 1125 =>
                  direction = CompassPoints[((IF k % 2 = 0 THEN k ELSE k + 1) % 16) + 1]
        /\ azimuth = 1125 => direction = "N"
        /\ azimuth = 3375 => direction = "NE"
        /\ azimuth = 5625 => direction = "NE"
        /\ azimuth = 34875 => direction = "N"
        /\ (0 <= azimuth /\ azimuth < 36000) =>
              \A k \in 0..15 :
                  /\ (k % 2 = 0 /\ CircDist(azimuth, 2250 * k) <= 1125)
                        => direction = CompassPoints[k + 1]
                  /\ (k % 2 = 1 /\ direction = CompassPoints[k + 1])
                        => CircDist(azimuth, 2250 * k) < 1125

\* a boundary that is rounded down
Wit_C25_HalfToEven ==
    /\ c_pc = "done"
    /\ azimuth = 5625
    /\ direction = "NE"

\* a boundary that is rounded up
C25_RoundedUp ==
    /\ c_pc = "done"
    /\ azimuth = 3375
    /\ direction = "NE"

---------------------------------------------------------------------------
(* Properties of main (voyager_from_kc-3.py) *)

NotObserved == "Not observed in this time period"

\* the printed lines about spacecraft c whose kind is in kinds, in order
LinesOf(c, kinds) ==
    SelectSeq(out, LAMBDA l : l.craft = c /\ l.kind \in kinds)

EventKinds == {"Below", "Rise", "Transit", "Set"}

\* the spacecraft before the one the loop is at has just been reported:
\* times and altitudes are still its series
JustReported ==
    /\ m_pc \in {"loop", "done"}
    /\ craft >= 2
    /\ status[craft - 1].outcome = "reported"

\* C16: the report prints the single line "<name> remains below the
\* horizon during the entire period." exactly when the detector returned
\* three absent events, which is exactly when no sample is above the
\* horizon; otherwise it prints one Rise, one Transit and one Set line, in
\* which an absent event reads "Not observed in this time period".
Thm_C16_Report ==
    JustReported =>
        LET ev == LinesOf(craft - 1, EventKinds)
            absent == rise_time = None /\ transit_time = None /\ set_time = None
        IN  /\ absent <=> ~Positive
            /\ absent =>
                  /\ Len(ev) = 1
                  /\ ev[1].kind = "Below"
            /\ ~absent =>
                  /\ Len(ev) = 3
                  /\ ev[1].kind = "Rise" /\ ev[2].kind = "Transit" /\ ev[3].kind = "Set"
                  /\ ev[1].text = NotObserved <=> rise_time = None
                  /\ ev[2].text = NotObserved <=> transit_time = None
                  /\ ev[3].text = NotObserved <=> set_time = None
                  /\ rise_time = None <=> RisingPairs = {}
                  /\ set_time = None <=> SettingPairs = {}

Wit_C16_Report ==
    /\ JustReported
    /\ craft = 2
    /\ Positive
    /\ rise_time = None /\ set_time # None
    /\ LinesOf(1, EventKinds) =
          <<Line(1, "Rise", NotObserved), Line(1, "Transit", "time"),
            Line(1, "Set", "time")>>

\* a wholly-below-horizon report
C16_Below ==
    /\ JustReported
    /\ ~Positive
    /\ Len(LinesOf(craft - 1, EventKinds)) = 1

\* C17: a failure while querying or processing one spacecraft is caught
\* and printed as an error, and the run goes on: main always reaches its
\* end, having printed the header of Voyager 1 and then of Voyager 2,
\* for each of them either its report or exactly one error line, and the
\* closing note as the last line.
Thm_C17_ErrorsDoNotStop ==
    /\ [](m_pc = "done" =>
            /\ LinesOf(1, {"Header"}) \o LinesOf(2, {"Header"}) =
                  <<Line(1, "Header", "Voyager 1"), Line(2, "Header", "Voyager 2")>>
            /\ \E k \in 1..Len(out) : \E j \in (k + 1)..Len(out) :
                  out[k] = Line(1, "Header", "Voyager 1")
                  /\ out[j] = Line(2, "Header", "Voyager 2")
            /\ \A c \in 1..2 :
                  /\ status[c].outcome \in {"reported", "error"}
                  /\ status[c].outcome = "error" =>
                        /\ Len(LinesOf(c, {"Error"})) = 1
                        /\ Len(LinesOf(c, EventKinds)) = 0
                  /\ status[c].outcome = "reported" =>
                        /\ Len(LinesOf(c, {"Error"})) = 0
                        /\ Len(LinesOf(c, EventKinds)) >= 1
            /\ out[Len(out)].kind = "Note"
            /\ Len(LinesOf(0, {"Note"})) = 1)
    /\ <>(m_pc = "done")

Wit_C17_ErrorsDoNotStop ==
    /\ m_pc = "done"
    /\ status[1].query = "failed"
    /\ status[1].outcome = "error"
    /\ status[2].outcome = "reported"
    /\ out[Len(out)].kind = "Note"

\* a failure after a successful query is caught as well
C17_ProcessingError ==
    /\ m_pc = "done"
    /\ status[1].query = "ok"
    /\ status[1].outcome = "error"
    /\ status[2].outcome = "reported"

---------------------------------------------------------------------------
(* Order of the reported events *)

BothCrossings == Returned /\ rise_time # None /\ set_time # None

\* some sample before index k has the maximum altitude of the series
PeakBefore(k) ==
    \E m \in 0..(k - 1) : \A j \in DOMAIN altitudes : altitudes[j] <= altitudes[m]

\* C21 (as amended): for strictly increasing timestamps, if the first
\* sample's altitude is <= 0 and both a rise and a set are reported, the
\* rise is not later than the set; the two coincide only when the set pair
\* directly follows the rise pair and both interpolated times are rounded
\* onto the sample the two pairs share.
Thm_C21_RiseNotAfterSet ==
    (BothCrossings /\ altitudes[0] <= 0) =>
        /\ Leq(rise_time, set_time)
        /\ Lowest(RisingPairs) < Lowest(SettingPairs)
        /\ rise_time = set_time =>
              /\ Lowest(SettingPairs) = Lowest(RisingPairs) + 1
              /\ rise_time = times[Lowest(RisingPairs)]

\* both crossings reported at the same instant (samples one microsecond
\* apart)
Wit_C21_RiseNotAfterSet ==
    /\ BothCrossings
    /\ altitudes[0] < 0
    /\ rise_time = set_time
    /\ Lt(times[0], rise_time)

\* the ordinary case: the rise strictly before the set
C21_Strict ==
    /\ BothCrossings
    /\ altitudes[0] <= 0
    /\ Lt(rise_time, set_time)

\* C21 as originally stated: the rise is strictly earlier than the set.
Cex_C21_Original ==
    (BothCrossings /\ altitudes[0] <= 0) => Lt(rise_time, set_time)

\* C22: a reported rise or set comes with a reported transit; the transit
\* is absent only when all three results are absent; and the transit is
\* the time of a sample whose altitude is strictly positive and at least
\* every sample's altitude.
Thm_C22_TransitWithCrossings ==
    Returned =>
        /\ (rise_time # None \/ set_time # None) => transit_time # None
        /\ transit_time = None => (rise_time = None /\ set_time = None)
        /\ transit_time # None =>
              \E k \in DOMAIN altitudes :
                  /\ times[k] = transit_time
                  /\ altitudes[k] > 0
                  /\ \A j \in DOMAIN altitudes : altitudes[j] <= altitudes[k]

\* a set without a rise, with its transit
Wit_C22_TransitWithCrossings ==
    /\ Returned
    /\ rise_time = None
    /\ set_time # None
    /\ transit_time = times[0]
    /\ altitudes[0] > 0

\* C23 (as amended): when rise, transit and set are reported with the rise
\* earlier than the set, the transit is not earlier than the rise; it is
\* not later than the set exactly when a sample of maximum altitude lies
\* before the first setting pair. When a later pass climbs higher than the
\* first one the transit is after the set.
Thm_C23_TransitInPass ==
    (BothCrossings /\ transit_time # None /\ Lt(rise_time, set_time)) =>
        /\ Leq(rise_time, transit_time)
        /\ Leq(transit_time, set_time) <=> PeakBefore(Lowest(SettingPairs))

\* one pass holding the maximum: rise, then transit, then set
Wit_C23_TransitInPass ==
    /\ BothCrossings
    /\ Lt(rise_time, transit_time)
    /\ Lt(transit_time, set_time)
    /\ PeakBefore(Lowest(SettingPairs))

\* a second, higher pass: the transit is after the set
C23_LaterPass ==
    /\ BothCrossings
    /\ Lt(rise_time, set_time)
    /\ Lt(set_time, transit_time)

\* C23 as originally stated: rise <= transit <= set whenever the three
\* are reported with the rise earlier than the set.
Cex_C23_Original ==
    (BothCrossings /\ transit_time # None /\ Lt(rise_time, set_time)) =>
        /\ Leq(rise_time, transit_time)
        /\ Leq(transit_time, set_time)

---------------------------------------------------------------------------
(* get_heliocentric_velocity in main *)

CouldNotRetrieve == "Could not retrieve heliocentric velocity data"

\* C26: get_heliocentric_velocity never raises: main goes on to its next
\* statement after it, with no error line; it returns four values that
\* are all None or none of them None; and when it returned the Nones, the
\* report of that spacecraft still has its position and its
\* rise/transit/set section, with the 'Could not retrieve heliocentric
\* velocity data' line where the velocity components would be.
Thm_C26_VelocityFailure ==
    /\ [][m_pc = "velocity" =>
              /\ m_pc' = "extract"
              /\ craft' = craft
              /\ status' = status
              /\ LinesOf(craft, {"Error"})' = << >>]_vars
    /\ [](\/ vel = NoVelocity
          \/ \A k \in 1..4 : vel[k] # None)
    /\ [](JustReported =>
            LET c == craft - 1
                body == LinesOf(c, {"Position", "Velocity"} \cup EventKinds)
            IN  /\ Len(LinesOf(c, {"Position"})) = 1
                /\ Len(LinesOf(c, {"Velocity"})) = 1
                /\ Len(LinesOf(c, EventKinds)) \in {1, 3}
                /\ body[1].kind = "Position"
                /\ body[2].kind = "Velocity"
                /\ body[2].text = CouldNotRetrieve <=> vel = NoVelocity
                /\ vel = NoVelocity <=> Len(LinesOf(c, {"Warning"})) = 1)

\* a spacecraft reported in full after its velocity could not be retrieved
Wit_C26_VelocityFailure ==
    /\ JustReported
    /\ craft = 2
    /\ vel = NoVelocity
    /\ Len(LinesOf(1, {"Warning"})) = 1
    /\ LinesOf(1, {"Velocity"}) = <<Line(1, "Velocity", CouldNotRetrieve)>>
    /\ Len(LinesOf(1, {"Position"})) = 1
    /\ Len(LinesOf(1, EventKinds)) = 3

---------------------------------------------------------------------------
(* planets.py: main and show_planet_info.  Python values are records: a   *)
(* string s is Str(s), a number n is Num(n), None is None.                 *)

Str(x) == [str |-> x]

\* isinstance(v, str)
IsStr(v) == "str" \in DOMAIN v

\* keys of planet_map (lines 61-71)
planet_map == {"mercury", "venus", "mars", "jupiter", "saturn", "uranus",
               "neptune", "pluto", "moon"}

\* body names tried on the command line
BodyArgs == planet_map \cup {"Mars", "MOON", "Pluto", "vulcan", "Sun", ""}

\* str.lower() on the names tried
Lower(x) ==
    CASE x = "Mars" -> "mars"
      [] x = "MOON" -> "moon"
      [] x = "Pluto" -> "pluto"
      [] x = "Sun" -> "sun"
      [] OTHER -> x

\* what parse_args returns: the version flag and the optional positional
ParsedArgs ==
    [version : BOOLEAN, planet : {None} \cup {Str(b) : b \in BodyArgs}]

\* truth value of args.planet: None and the empty string are false
PlanetGiven(a) == a.planet # None /\ a.planet # Str("")

\* the body's altitude (degrees) and azimuth (hundredths of a degree)
SkyAlts == {-5, 0, 5}
SkyAzimuths == {0, 1125, 18000, 35999}

\* one printed line of planets.py
PLine(kind, text) == [kind |-> kind, text |-> text]

\* ephem's exception classes: AlwaysUpError and NeverUpError derive from
\* CircumpolarError, which derives from ValueError
Exceptions == {"AlwaysUpError", "NeverUpError", "CircumpolarError"}

BaseClass(e) ==
    CASE e = "AlwaysUpError" -> "CircumpolarError"
      [] e = "NeverUpError" -> "CircumpolarError"
      [] e = "CircumpolarError" -> "ValueError"
      [] OTHER -> "Exception"

\* except (classes): the exception is an instance of one of the classes
Caught(e, classes) ==
    \/ e \in classes
    \/ BaseClass(e) \in classes
    \/ BaseClass(BaseClass(e)) \in classes

\* lines 94, 100: the classes the rise and set lookups are guarded against
RiseSetGuard == {"AlwaysUpError", "NeverUpError"}

\* line 106: the class the transit lookup is guarded against
TransitGuard == {"CircumpolarError"}

\* an exception nothing catches ends the process with a traceback and
\* exit status 1
Abort(e) ==
    /\ p_out' = p_out \o <<PLine("Traceback", e)>>
    /\ exit_status' = Num(1)
    /\ p_pc' = "exit"

\* a time to display (lines 92-93), or "Not available" (line 95)
ATime == [datetime |-> "time"]
NotAvailable == Str("Not available")

InitPlanets ==
    /\ DetectorIdle
    /\ InitCalls
    /\ CompassIdle
    /\ MainIdle
    /\ p_pc = "start"
    /\ args \in ParsedArgs
    /\ planet_name = None
    /\ sky = None
    /\ rise_cst = None
    /\ set_cst = None
    /\ transit_cst = None
    /\ p_out = << >>
    /\ exit_status = None

\* variant: the body name is looked at before the version flag
PlanetsMainBodyFirst ==
    /\ p_pc = "start"
    /\ IF PlanetGiven(args)
       THEN /\ p_out' = p_out \o <<PLine("Banner", "planets.py 1.1")>>
            /\ planet_name' = args.planet
            /\ p_pc' = "show"
            /\ UNCHANGED exit_status
       ELSE IF args.version
       THEN /\ p_out' = p_out \o <<PLine("Banner", "planets.py 1.1"),
                                   PLine("Version", "planets.py - Version 1.0")>>
            /\ exit_status' = Num(0)
            /\ p_pc' = "exit"
            /\ UNCHANGED planet_name
       ELSE /\ p_out' = p_out \o <<PLine("Banner", "planets.py 1.1"),
                                   PLine("Help", "usage"),
                                   PLine("Error", "You must specify a celestial body.")>>
            /\ exit_status' = Num(1)
            /\ p_pc' = "exit"
            /\ UNCHANGED planet_name
    /\ UNCHANGED <<args, sky, rise_cst, set_cst, transit_cst>>
    /\ UNCHANGED <<detectorVars, callVars, compassVars, mainVars>>

\* lines 165-192: main prints the banner and dispatches on the parsed
\* command line
PlanetsMain ==
    /\ p_pc = "start"
    /\ IF args.version
       THEN /\ p_out' = p_out \o <<PLine("Banner", "planets.py 1.1"),
                                   PLine("Version", "planets.py - Version 1.0")>>
            /\ exit_status' = Num(0)
            /\ p_pc' = "exit"
            /\ UNCHANGED planet_name
       ELSE IF PlanetGiven(args)
       THEN /\ p_out' = p_out \o <<PLine("Banner", "planets.py 1.1")>>
            /\ planet_name' = args.planet
            /\ p_pc' = "show"
            /\ UNCHANGED exit_status
       ELSE /\ p_out' = p_out \o <<PLine("Banner", "planets.py 1.1"),
                                   PLine("Help", "usage"),
                                   PLine("Error", "You must specify a celestial body.")>>
            /\ exit_status' = Num(1)
            /\ p_pc' = "exit"
            /\ UNCHANGED planet_name
    /\ UNCHANGED <<args, sky, rise_cst, set_cst, transit_cst>>
    /\ UNCHANGED <<detectorVars, callVars, compassVars, mainVars>>

\* lines 54-89: the name is lower-cased and looked up; an unknown name
\* ends the program with status 1, a known one has its position computed
ShowPlanetInfoLookup ==
    /\ p_pc = "show"
    /\ planet_name' = Str(Lower(planet_name.str))
    /\ IF Lower(planet_name.str) \notin planet_map
       THEN /\ p_out' = p_out \o <<PLine("Error", "is not a valid celestial body."),
                                   PLine("Error", "Valid options are")>>
            /\ exit_status' = Num(1)
            /\ p_pc' = "exit"
            /\ UNCHANGED sky
       ELSE /\ \E alt \in SkyAlts, az \in SkyAzimuths : sky' = [alt |-> alt, az |-> az]
            /\ p_pc' = "rise"
            /\ UNCHANGED <<p_out, exit_status>>
    /\ UNCHANGED <<args, rise_cst, set_cst, transit_cst>>
    /\ UNCHANGED <<detectorVars, callVars, compassVars, mainVars>>

\* variant: one try block around the three lookups, so that a failed rise
\* lookup leaves all three times unavailable
NextRisingOneGuard ==
    /\ p_pc = "rise"
    /\ \/ /\ rise_cst' = ATime
          /\ p_pc' = "set"
          /\ UNCHANGED <<set_cst, transit_cst, p_out, exit_status>>
       \/ \E e \in Exceptions :
             IF Caught(e, RiseSetGuard)
             THEN /\ rise_cst' = NotAvailable
                  /\ set_cst' = NotAvailable
                  /\ transit_cst' = NotAvailable
                  /\ p_pc' = "print"
                  /\ UNCHANGED <<p_out, exit_status>>
             ELSE /\ Abort(e)
                  /\ UNCHANGED <<rise_cst, set_cst, transit_cst>>
    /\ UNCHANGED <<args, planet_name, sky>>
    /\ UNCHANGED <<detectorVars, callVars, compassVars, mainVars>>

\* lines 91-95: next_rising returns a time or raises
NextRising ==
    /\ p_pc = "rise"
    /\ \/ /\ rise_cst' = ATime
          /\ p_pc' = "set"
          /\ UNCHANGED <<p_out, exit_status>>
       \/ \E e \in Exceptions :
             IF Caught(e, RiseSetGuard)
             THEN /\ rise_cst' = NotAvailable
                  /\ p_pc' = "set"
                  /\ UNCHANGED <<p_out, exit_status>>
             ELSE /\ Abort(e)
                  /\ UNCHANGED rise_cst
    /\ UNCHANGED <<args, planet_name, sky, set_cst, transit_cst>>
    /\ UNCHANGED <<detectorVars, callVars, compassVars, mainVars>>

\* lines 97-101: next_setting returns a time or raises
NextSetting ==
    /\ p_pc = "set"
    /\ \/ /\ set_cst' = ATime
          /\ p_pc' = "transit"
          /\ UNCHANGED <<p_out, exit_status>>
       \/ \E e \in Exceptions :
             IF Caught(e, RiseSetGuard)
             THEN /\ set_cst' = NotAvailable
                  /\ p_pc' = "transit"
                  /\ UNCHANGED <<p_out, exit_status>>
             ELSE /\ Abort(e)
                  /\ UNCHANGED set_cst
    /\ UNCHANGED <<args, planet_name, sky, rise_cst, transit_cst>>
    /\ UNCHANGED <<detectorVars, callVars, compassVars, mainVars>>

\* lines 103-107: next_transit returns a time or raises
NextTransit ==
    /\ p_pc = "transit"
    /\ \/ /\ transit_cst' = ATime
          /\ p_pc' = "print"
          /\ UNCHANGED <<p_out, exit_status>>
       \/ \E e \in Exceptions :
             IF Caught(e, TransitGuard)
             THEN /\ transit_cst' = NotAvailable
                  /\ p_pc' = "print"
                  /\ UNCHANGED <<p_out, exit_status>>
             ELSE /\ Abort(e)
                  /\ UNCHANGED transit_cst
    /\ UNCHANGED <<args, planet_name, sky, rise_cst, set_cst>>
    /\ UNCHANGED <<detectorVars, callVars, compassVars, mainVars>>

\* lines 113-133: the distance, light time and size lines, with the
\* magnitude for a planet and the phase for the Moon
InfoLines(name) ==
    IF name # Str("moon")
    THEN <<PLine("Distance", "AU and km"), PLine("LightTime", "minutes"),
           PLine("Magnitude", "mag"), PLine("Size", "arcseconds")>>
    ELSE <<PLine("Phase", "percent"), PLine("Distance", "km"),
           PLine("LightTime", "seconds"), PLine("Size", "arcseconds")>>

\* lines 136-149: a string is printed as it is, a datetime formatted
TimeLine(kind, v) ==
    IF IsStr(v) THEN PLine(kind, v.str) ELSE PLine(kind, "time")

\* lines 152-161
PositionLines(sk) ==
    <<PLine("Position", "above Kansas City"),
      PLine("Altitude", IF sk.alt >= 0 THEN "above horizon" ELSE "below horizon"),
      PLine("Azimuth", get_compass_direction(sk.az))>>

\* lines 109-163: the report is printed and show_planet_info returns
ShowPlanetInfoPrint ==
    /\ p_pc = "print"
    /\ p_out' = p_out \o InfoLines(planet_name)
                      \o <<TimeLine("Rise", rise_cst),
                           TimeLine("Transit", transit_cst),
                           TimeLine("Set", set_cst)>>
                      \o PositionLines(sky)
    /\ exit_status' = Num(0)
    /\ p_pc' = "exit"
    /\ UNCHANGED <<args, planet_name, sky, rise_cst, set_cst, transit_cst>>
    /\ UNCHANGED <<detectorVars, callVars, compassVars, mainVars>>

NextPlanets ==
    \/ PlanetsMain
    \/ ShowPlanetInfoLookup
    \/ NextRising
    \/ NextSetting
    \/ NextTransit
    \/ ShowPlanetInfoPrint

SpecPlanets == InitPlanets /\ [][NextPlanets]_vars

---------------------------------------------------------------------------
(* Properties of planets.py *)

\* the kinds of the printed lines, in order
Kinds(lines) == [k \in 1..Len(lines) |-> lines[k].kind]

\* the lines of p_out whose kind is in kinds
PLinesOf(kinds) == SelectSeq(p_out, LAMBDA l : l.kind \in kinds)

\* lines that show data of a body
BodyKinds == {"Distance", "LightTime", "Magnitude", "Size", "Phase",
              "Rise", "Transit", "Set", "Position", "Altitude", "Azimuth"}

\* show_planet_info has returned after printing its report
Reported == p_pc = "exit" /\ exit_status = Num(0) /\ ~args.version

\* C27: in show_planet_info the rise, set and transit lookups are made and
\* guarded one by one: each assigns only its own time, an AlwaysUpError or
\* NeverUpError in one of them leaves 'Not available' in that time alone
\* and never ends the program, and the report then has its distance and
\* light-time lines, its three time lines ('Not available' exactly for the
\* lookups that failed) and its altitude and azimuth lines.
Thm_C27_GuardedOneByOne ==
    /\ [][/\ p_pc = "rise" =>
                /\ UNCHANGED <<set_cst, transit_cst>>
                /\ p_pc' = "set" \/ (p_pc' = "exit" /\ rise_cst' = None)
          /\ p_pc = "set" =>
                /\ UNCHANGED <<rise_cst, transit_cst>>
                /\ p_pc' = "transit" \/ (p_pc' = "exit" /\ set_cst' = None)
          /\ p_pc = "transit" =>
                /\ UNCHANGED <<rise_cst, set_cst>>
                /\ p_pc' = "print"]_vars
    /\ [](\A k \in 1..Len(p_out) :
              p_out[k].kind = "Traceback" =>
                  p_out[k].text \notin {"AlwaysUpError", "NeverUpError"})
    /\ [](Reported =>
            /\ Kinds(PLinesOf(BodyKinds \ {"Magnitude", "Phase"})) =
                  <<"Distance", "LightTime", "Size", "Rise", "Transit", "Set",
                    "Position", "Altitude", "Azimuth">>
            /\ Len(PLinesOf({"Traceback", "Error"})) = 0
            /\ PLinesOf({"Rise"})[1].text = "Not available" <=> rise_cst = NotAvailable
            /\ PLinesOf({"Set"})[1].text = "Not available" <=> set_cst = NotAvailable
            /\ PLinesOf({"Transit"})[1].text = "Not available" <=> transit_cst = NotAvailable
            /\ \A t \in {rise_cst, set_cst, transit_cst} : t \in {ATime, NotAvailable})

\* a report with the rise unavailable and the other two times printed
Wit_C27_GuardedOneByOne ==
    /\ Reported
    /\ rise_cst = NotAvailable
    /\ set_cst = ATime
    /\ transit_cst = ATime
    /\ PLinesOf({"Rise", "Transit", "Set"}) =
          <<PLine("Rise", "Not available"), PLine("Transit", "time"),
            PLine("Set", "time")>>
    /\ Len(PLinesOf({"Distance", "Altitude", "Azimuth"})) = 3

\* a report with only the transit unavailable
C27_TransitOnly ==
    /\ Reported
    /\ rise_cst = ATime
    /\ set_cst = ATime
    /\ transit_cst = NotAvailable

\* C28: the command line is dispatched in a fixed order.  With the version
\* flag the version is printed and no data of a body, whatever body name
\* is given; without it, a name that is not (in any letter case) one of
\* the nine keys of planet_map ends the program with an error line and
\* status 1 before any data of a body is printed, and no name at all gets
\* the help, an error line and status 1; a supported name in any letter
\* case is not rejected.
Thm_C28_Dispatch ==
    /\ PLinesOf(BodyKinds) # << >> =>
          /\ ~args.version
          /\ PlanetGiven(args)
          /\ Lower(args.planet.str) \in planet_map
    /\ p_pc = "exit" =>
          /\ args.version =>
                /\ Kinds(p_out) = <<"Banner", "Version">>
                /\ exit_status = Num(0)
          /\ (~args.version /\ PlanetGiven(args)
                /\ Lower(args.planet.str) \notin planet_map) =>
                /\ Kinds(p_out) = <<"Banner", "Error", "Error">>
                /\ exit_status = Num(1)
          /\ (~args.version /\ ~PlanetGiven(args)) =>
                /\ Kinds(p_out) = <<"Banner", "Help", "Error">>
                /\ exit_status = Num(1)
          /\ (~args.version /\ PlanetGiven(args)
                /\ Lower(args.planet.str) \in planet_map) =>
                /\ Len(PLinesOf({"Error", "Help", "Version"})) = 0
                /\ Reported \/ Len(PLinesOf({"Traceback"})) = 1

\* the version flag together with a supported body name
Wit_C28_Dispatch ==
    /\ p_pc = "exit"
    /\ args = [version |-> TRUE, planet |-> Str("mars")]
    /\ Kinds(p_out) = <<"Banner", "Version">>

\* an unsupported body name
C28_Unsupported ==
    /\ p_pc = "exit"
    /\ args = [version |-> FALSE, planet |-> Str("vulcan")]
    /\ exit_status = Num(1)

\* a supported body name in capitals
C28_Capitals ==
    /\ Reported
    /\ args.planet = Str("MOON")
    /\ planet_name = Str("moon")
    /\ Len(PLinesOf({"Phase"})) = 1

\* no body name and no version flag
C28_Nothing ==
    /\ p_pc = "exit"
    /\ args = [version |-> FALSE, planet |-> None]
    /\ Kinds(p_out) = <<"Banner", "Help", "Error">>

=============================================================================
